---- MODULE Spec2Model ----
(***************************************************************************)
(* Model of the x86-64 backend of HF-CODEGEN (src/src/compiler/x86.rs):    *)
(* the Compiler instance, the IR translator, the assembler capability it   *)
(* drives (iced-x86 code_asm) and the object builder (object::write).      *)
(***************************************************************************)
EXTENDS Integers, Sequences, FiniteSets, TLC

(***************************************************************************)
(* Bounds of the model.                                                    *)
(***************************************************************************)
\* compile requests issued on one Compiler instance
MaxRequests == 2
\* top-level IR nodes of one request
MaxProgLen == 2
\* largest operand of Add / Subtract drawn in the arithmetic specification
MaxArithN == 770

(***************************************************************************)
(* Machine words.  TLC integers are 32-bit, the operands of the IR and the *)
(* pointer registers are 64-bit: a word is four 16-bit limbs, least        *)
(* significant first.                                                      *)
(***************************************************************************)
Limb == 256 * 256

W(l1, l2, l3, l4) == <<l1, l2, l3, l4>>

\* a natural number below 2^31 as a word
NatW(k) == <<k % Limb, k \div Limb, 0, 0>>

WZero == NatW(0)

\* the value of a word known to be below 2^31
WNat(w) == w[1] + Limb * w[2]

\* a > b, unsigned
WGt(a, b) ==
    \E i \in 1..4 : a[i] > b[i] /\ \A j \in (i + 1)..4 : a[j] = b[j]

\* a + b modulo 2^64
WAdd(a, b) ==
    LET s1 == a[1] + b[1]
        s2 == a[2] + b[2] + (s1 \div Limb)
        s3 == a[3] + b[3] + (s2 \div Limb)
        s4 == a[4] + b[4] + (s3 \div Limb)
    IN  <<s1 % Limb, s2 % Limb, s3 % Limb, s4 % Limb>>

\* two's complement negation modulo 2^64
WNeg(a) ==
    WAdd(<<Limb - 1 - a[1], Limb - 1 - a[2], Limb - 1 - a[3], Limb - 1 - a[4]>>,
         NatW(1))

\* a - b modulo 2^64
WSub(a, b) == WAdd(a, WNeg(b))

\* `n as u32`: the low 32 bits
AsU32(w) == <<w[1], w[2], 0, 0>>

\* the four little-endian bytes of the low 32 bits of a word
WBytes32(w) == <<w[1] % 256, w[1] \div 256, w[2] % 256, w[2] \div 256>>

\* a word is a signed 64-bit value in -128..127
WFitsI8(w) ==
    \/ w[4] = 0 /\ w[3] = 0 /\ w[2] = 0 /\ w[1] <= 127
    \/ w[4] = Limb - 1 /\ w[3] = Limb - 1 /\ w[2] = Limb - 1 /\ w[1] >= Limb - 128

\* the four little-endian bytes of a (possibly negative) 32-bit integer
IntBytes32(k) ==
    LET lo == k % Limb
        hi == (k \div Limb) % Limb
    IN  <<lo % 256, lo \div 256, hi % 256, hi \div 256>>

(***************************************************************************)
(* IR nodes (crate::ir::IrNode): an operation and a source span.           *)
(***************************************************************************)
Node(op, n, name, body) == [op |-> op, n |-> n, name |-> name, body |-> body, span |-> 0]

Add(n) == Node("Add", n, "", <<>>)
Subtract(n) == Node("Subtract", n, "", <<>>)
MoveRight(n) == Node("MoveRight", n, "", <<>>)
MoveLeft(n) == Node("MoveLeft", n, "", <<>>)
StackPush == Node("StackPush", WZero, "", <<>>)
StackPop == Node("StackPop", WZero, "", <<>>)
Condition(body) == Node("Condition", WZero, "", body)
Function(name, body) == Node("Function", WZero, name, body)
FunctionCall(name) == Node("FunctionCall", WZero, name, <<>>)
ExternalFunctionCall(name) == Node("ExternalFunctionCall", WZero, name, <<>>)
\* an operation kind the translator has no arm for
OtherOp == Node("Other", WZero, "", <<>>)

\* spans as the front end assigns them: distinct per node, children inside
\* their parent (node i of a sequence under prefix p gets 4 * p + i)
RECURSIVE Stamp(_, _)
Stamp(nodes, prefix) ==
    [i \in 1..Len(nodes) |->
        [nodes[i] EXCEPT !.span = 4 * prefix + i,
                         !.body = Stamp(nodes[i].body, 4 * prefix + i)]]

\* the nodes of a sequence in document (pre-)order
RECURSIVE PreOrder(_)
PreOrder(nodes) ==
    IF nodes = <<>> THEN <<>>
    ELSE <<Head(nodes)>> \o PreOrder(Head(nodes).body) \o PreOrder(Tail(nodes))

(***************************************************************************)
(* Configuration (crate::target::CallingConvention, CompilerSettings).     *)
(***************************************************************************)
\* the two conventions the translator has arms for, and one it has not
CallingConventions == {"X86_64_SystemVAMD64", "X86_64_MicrosoftX64", "OtherConvention"}

\* base addresses a Compiler may be configured with
BaseAddresses == {0, 3, 4096}

(***************************************************************************)
(* Scope & Function Registry (crate::scope::ScopeManager).                 *)
(* fns: function name -> [label, global]; stack: the active scopes, each   *)
(* with its counter of unnamed child scopes; root_next: that counter for   *)
(* the root scope.                                                         *)
(***************************************************************************)
ScopeManagerNew == [fns |-> <<>>, stack |-> <<>>, root_next |-> 0]

\* fns is kept as a sequence of entries, one per name
FnIndex(sc, name) == {i \in 1..Len(sc.fns) : sc.fns[i].name = name}

push_fn(sc, name, label) ==
    LET e == [name |-> name, label |-> label, global |-> (sc.stack = <<>>)]
    IN  IF FnIndex(sc, name) = {}
        THEN [sc EXCEPT !.fns = Append(@, e)]
        ELSE [sc EXCEPT !.fns = [i \in 1..Len(@) |->
                                    IF @[i].name = name THEN e ELSE @[i]]]

push_scope(sc, name) == [sc EXCEPT !.stack = Append(@, [name |-> name, next |-> 0])]

pop_scope(sc) == [sc EXCEPT !.stack = SubSeq(@, 1, Len(@) - 1)]

get_top_scope_name(sc) ==
    IF sc.stack = <<>> THEN "" ELSE sc.stack[Len(sc.stack)].name

\* the number handed out, and the manager after handing it out
next_unnamed_scope_number(sc) ==
    IF sc.stack = <<>> THEN sc.root_next ELSE sc.stack[Len(sc.stack)].next

after_next_unnamed(sc) ==
    IF sc.stack = <<>> THEN [sc EXCEPT !.root_next = @ + 1]
    ELSE [sc EXCEPT !.stack[Len(sc.stack)].next = @ + 1]

has_fn(sc, name) == FnIndex(sc, name) # {}

get_fn(sc, name) == sc.fns[CHOOSE i \in FnIndex(sc, name) : TRUE].label

get_global_functions(sc) == SelectSeq(sc.fns, LAMBDA e : e.global)

FnNames(sc) == {sc.fns[i].name : i \in 1..Len(sc.fns)}

(***************************************************************************)
(* The assembler capability (iced_x86::code_asm::CodeAssembler).           *)
(* A label is [id, idx]: idx is the index of the instruction it is bound   *)
(* to, 0 while unbound.  An instruction carries the id of the label bound  *)
(* to it (lbl), the id of the label it branches to (tgt), and the span of  *)
(* the IR node it was emitted for (node).                                  *)
(***************************************************************************)
Ins(op, r1, r2, imm, tgt, node) ==
    [op |-> op, r1 |-> r1, r2 |-> r2, imm |-> imm, tgt |-> tgt, lbl |-> 0, node |-> node]

NoErr == [kind |-> "", span |-> 0, name |-> "", n |-> WZero]

\* CodeAssembler::new plus the Compiler's registries as the request finds them
CtxNew(ext, sc) ==
    [instrs |-> <<>>, nlabels |-> 0, cur |-> 0, ext |-> ext, sc |-> sc,
     status |-> "ok", err |-> NoErr]

Fail(ctx, kind, span, name, n) ==
    IF ctx.status # "ok" THEN ctx
    ELSE [ctx EXCEPT !.status = "err",
                     !.err = [kind |-> kind, span |-> span, name |-> name, n |-> n]]

\* todo!(): the thread panics
Panic(ctx, span) ==
    IF ctx.status # "ok" THEN ctx
    ELSE [ctx EXCEPT !.status = "panic",
                     !.err = [kind |-> "todo", span |-> span, name |-> "", n |-> WZero]]

\* create_label: the label the next call returns, and the assembler after it
create_label(ctx) == [id |-> ctx.nlabels + 1, idx |-> 0]

after_create_label(ctx) ==
    IF ctx.status # "ok" THEN ctx ELSE [ctx EXCEPT !.nlabels = @ + 1]

\* set_label: binds the label to the next instruction added; one label per
\* instruction, a label is bound once
set_label_ok(ctx, label) == label.id # 0 /\ label.idx = 0 /\ ctx.cur = 0

bound_label(ctx, label) == [label EXCEPT !.idx = Len(ctx.instrs) + 1]

set_label(ctx, label, span) ==
    IF ctx.status # "ok" THEN ctx
    ELSE IF ~set_label_ok(ctx, label)
         THEN Fail(ctx, "AssemblerError", span, "", WZero)
         ELSE [ctx EXCEPT !.cur = label.id]

\* add_instr: the pending label goes to the instruction
add_instr(ctx, ins) ==
    IF ctx.status # "ok" THEN ctx
    ELSE [ctx EXCEPT !.instrs = Append(@, [ins EXCEPT !.lbl = ctx.cur]),
                     !.cur = 0]

\* an 8-bit immediate given as u32 must be at most u8::MAX
Imm8Ok(imm) == ~WGt(imm, NatW(255))

\* add / sub / cmp byte ptr [reg], imm
asm_alu8(ctx, op, reg, imm, span) ==
    IF Imm8Ok(imm) THEN add_instr(ctx, Ins(op, reg, "", imm, 0, span))
    ELSE Fail(ctx, "AssemblerError", span, "", WZero)

\* lea dst, [base + disp]
asm_lea(ctx, dst, base, disp, span) == add_instr(ctx, Ins("lea", dst, base, disp, 0, span))

\* mov al, byte ptr [reg]  /  mov byte ptr [reg], al
asm_mov_load(ctx, reg, span) == add_instr(ctx, Ins("mov_al_m", reg, "", WZero, 0, span))

asm_mov_store(ctx, reg, span) == add_instr(ctx, Ins("mov_m_al", reg, "", WZero, 0, span))

asm_push(ctx, reg, span) == add_instr(ctx, Ins("push", reg, "", WZero, 0, span))

asm_pop(ctx, reg, span) == add_instr(ctx, Ins("pop", reg, "", WZero, 0, span))

asm_branch(ctx, op, label, span) == add_instr(ctx, Ins(op, "", "", WZero, label.id, span))

asm_ret(ctx, span) == add_instr(ctx, Ins("ret", "", "", WZero, 0, span))

zero_bytes(ctx, span) == add_instr(ctx, Ins("zero", "", "", WZero, 0, span))

(***************************************************************************)
(* The translator (Compiler::translate_ir_node_impl and its helpers).      *)
(* Every operator takes and returns the translation context; once the      *)
(* context is in error (the `?` of the source) or has panicked, the rest   *)
(* of the request changes nothing.                                         *)
(***************************************************************************)
\* 0x7FFFFFFF
MaxDisplacement == W(65535, 32767, 0, 0)

WithSc(ctx, sc) == IF ctx.status # "ok" THEN ctx ELSE [ctx EXCEPT !.sc = sc]

\* Compiler::add_external_call
add_external_call(ctx, name, label) ==
    IF ctx.status # "ok" THEN ctx
    ELSE IF name \in DOMAIN ctx.ext
         THEN [ctx EXCEPT !.ext[name] = Append(@, label)]
         ELSE [ctx EXCEPT !.ext = [k \in DOMAIN ctx.ext \cup {name} |->
                                      IF k = name THEN <<label>> ELSE ctx.ext[k]]]

\* IrOp::Add: chunks of 255 while the remainder exceeds 255, then the rest
RECURSIVE translate_Add_loop(_, _, _)
translate_Add_loop(ctx, rem, span) ==
    IF WGt(rem, NatW(255))
    THEN translate_Add_loop(asm_alu8(ctx, "add8", "r8", NatW(255), span),
                            WSub(rem, NatW(255)), span)
    ELSE asm_alu8(ctx, "add8", "r8", AsU32(rem), span)

\* a variant of the Add arm whose loop takes 256 off the remainder for every
\* chunk of 255 it emits
RECURSIVE translate_Add_loop_256(_, _, _)
translate_Add_loop_256(ctx, rem, span) ==
    IF WGt(rem, NatW(255))
    THEN translate_Add_loop_256(asm_alu8(ctx, "add8", "r8", NatW(255), span),
                                WSub(rem, NatW(256)), span)
    ELSE asm_alu8(ctx, "add8", "r8", AsU32(rem), span)

translate_Add_Takes256(ctx, node) == translate_Add_loop_256(ctx, node.n, node.span)

translate_Add(ctx, node) == translate_Add_loop(ctx, node.n, node.span)

\* IrOp::Subtract: one sub with `n as u32`
translate_Subtract(ctx, node) == asm_alu8(ctx, "sub8", "r8", AsU32(node.n), node.span)

\* IrOp::MoveRight
translate_MoveRight(ctx, node) ==
    IF WGt(node.n, MaxDisplacement)
    THEN Fail(ctx, "MoveTooLarge", node.span, "", AsU32(node.n))
    ELSE asm_lea(ctx, "r8", "r8", AsU32(node.n), node.span)

\* a variant of the MoveLeft arm that adds the displacement, as MoveRight does
translate_MoveLeft_Adds(ctx, node) ==
    IF WGt(node.n, MaxDisplacement)
    THEN Fail(ctx, "MoveTooLarge", node.span, "", AsU32(node.n))
    ELSE asm_lea(ctx, "r8", "r8", AsU32(node.n), node.span)

\* IrOp::MoveLeft
translate_MoveLeft(ctx, node) ==
    IF WGt(node.n, MaxDisplacement)
    THEN Fail(ctx, "MoveTooLarge", node.span, "", AsU32(node.n))
    ELSE asm_lea(ctx, "r8", "r8", WNeg(AsU32(node.n)), node.span)

\* IrOp::StackPush: lea r9,[r9+1]; mov al,[r8]; mov [r9],al
translate_StackPush(ctx, node) ==
    asm_mov_store(
        asm_mov_load(asm_lea(ctx, "r9", "r9", NatW(1), node.span), "r8", node.span),
        "r9", node.span)

\* a variant of the StackPop arm that decrements the auxiliary pointer before
\* it reads the byte
translate_StackPop_DecrementsFirst(ctx, node) ==
    asm_mov_store(
        asm_mov_load(asm_lea(ctx, "r9", "r9", WNeg(NatW(1)), node.span), "r9", node.span),
        "r8", node.span)

\* IrOp::StackPop: mov al,[r9]; mov [r8],al; lea r9,[r9-1]
translate_StackPop(ctx, node) ==
    asm_lea(
        asm_mov_store(asm_mov_load(ctx, "r9", node.span), "r8", node.span),
        "r9", "r9", WNeg(NatW(1)), node.span)

\* IrOp::FunctionCall
translate_FunctionCall(ctx, node) ==
    IF ctx.status # "ok" THEN ctx
    ELSE IF ~has_fn(ctx.sc, node.name)
         THEN Fail(ctx, "FunctionNotFound", node.span, node.name, WZero)
         ELSE asm_branch(ctx, "call", get_fn(ctx.sc, node.name), node.span)

\* the calling convention specific setup of IrOp::ExternalFunctionCall
external_call_setup(ctx, cc, span) ==
    IF cc = "X86_64_SystemVAMD64"
    THEN asm_lea(asm_lea(asm_push(asm_push(ctx, "r8", span), "r9", span),
                         "rdi", "rsp", NatW(8), span),
                 "rsi", "rsp", WZero, span)
    ELSE IF cc = "X86_64_MicrosoftX64"
    THEN asm_lea(asm_lea(asm_push(asm_push(ctx, "r8", span), "r9", span),
                         "rcx", "rsp", NatW(8), span),
                 "rdx", "rsp", WZero, span)
    ELSE Panic(ctx, span)

\* a variant of the cleanup that pops the data pointer before the auxiliary
\* pointer
external_call_cleanup_PopsDataFirst(ctx, cc, span) ==
    IF cc \in {"X86_64_SystemVAMD64", "X86_64_MicrosoftX64"}
    THEN asm_pop(asm_pop(ctx, "r8", span), "r9", span)
    ELSE Panic(ctx, span)

\* the calling convention specific cleanup of IrOp::ExternalFunctionCall
external_call_cleanup(ctx, cc, span) ==
    IF cc \in {"X86_64_SystemVAMD64", "X86_64_MicrosoftX64"}
    THEN asm_pop(asm_pop(ctx, "r9", span), "r8", span)
    ELSE Panic(ctx, span)

\* IrOp::ExternalFunctionCall
translate_ExternalFunctionCall(ctx, cc, node) ==
    LET label == create_label(ctx)
        c1 == zero_bytes(after_create_label(ctx), node.span)
        c2 == external_call_setup(c1, cc, node.span)
        c3 == set_label(c2, label, node.span)
        c4 == add_external_call(c3, node.name, bound_label(c2, label))
        c5 == asm_branch(c4, "call", label, node.span)
    IN  external_call_cleanup(c5, cc, node.span)

RECURSIVE translate_nodes(_, _, _)
RECURSIVE translate_ir_node_impl(_, _, _)

\* a variant of translate_function_impl that registers the function only
\* after its body is translated
translate_function_impl_RegistersLate(ctx, cc, name, span, children) ==
    LET fn_label == create_label(ctx)
        c1 == zero_bytes(after_create_label(ctx), span)
        c2 == set_label(c1, fn_label, span)
        c3 == WithSc(c2, push_scope(c2.sc, name))
        c4 == translate_nodes(c3, cc, children)
        c5 == WithSc(c4, push_fn(pop_scope(c4.sc), name, bound_label(c1, fn_label)))
    IN  asm_ret(c5, span)

\* Compiler::translate_function_impl
translate_function_impl(ctx, cc, name, span, children) ==
    LET fn_label == create_label(ctx)
        c1 == zero_bytes(after_create_label(ctx), span)
        c2 == set_label(c1, fn_label, span)
        c3 == WithSc(c2, push_scope(push_fn(c2.sc, name, bound_label(c1, fn_label)), name))
        c4 == translate_nodes(c3, cc, children)
        c5 == WithSc(c4, pop_scope(c4.sc))
    IN  asm_ret(c5, span)

\* a variant of the Condition arm whose closing jump goes to the end label,
\* so that the body runs at most once
translate_Condition_RunsOnce(ctx, cc, node) ==
    LET start_label == create_label(ctx)
        c0 == after_create_label(ctx)
        end_label == create_label(c0)
        c1 == zero_bytes(after_create_label(c0), node.span)
        c2 == set_label(c1, start_label, node.span)
        c3 == asm_alu8(c2, "cmp8", "r8", WZero, node.span)
        c4 == asm_branch(c3, "je", end_label, node.span)
        scope_name == <<get_top_scope_name(c4.sc), next_unnamed_scope_number(c4.sc)>>
        c5 == WithSc(c4, push_scope(after_next_unnamed(c4.sc), scope_name))
        c6 == translate_nodes(c5, cc, node.body)
        c7 == WithSc(c6, pop_scope(c6.sc))
        c8 == asm_branch(c7, "jmp", end_label, node.span)
        c9 == set_label(c8, end_label, node.span)
    IN  zero_bytes(c9, node.span)

\* IrOp::Condition
translate_Condition(ctx, cc, node) ==
    LET start_label == create_label(ctx)
        c0 == after_create_label(ctx)
        end_label == create_label(c0)
        c1 == zero_bytes(after_create_label(c0), node.span)
        c2 == set_label(c1, start_label, node.span)
        c3 == asm_alu8(c2, "cmp8", "r8", WZero, node.span)
        c4 == asm_branch(c3, "je", end_label, node.span)
        scope_name == <<get_top_scope_name(c4.sc), next_unnamed_scope_number(c4.sc)>>
        c5 == WithSc(c4, push_scope(after_next_unnamed(c4.sc), scope_name))
        c6 == translate_nodes(c5, cc, node.body)
        c7 == WithSc(c6, pop_scope(c6.sc))
        c8 == asm_branch(c7, "jmp", start_label, node.span)
        c9 == set_label(c8, end_label, node.span)
    IN  zero_bytes(c9, node.span)

\* the match of Compiler::translate_ir_node_impl
translate_ir_node_impl(ctx, cc, node) ==
    IF ctx.status # "ok" THEN ctx
    ELSE CASE node.op = "Add" -> translate_Add(ctx, node)
           [] node.op = "Subtract" -> translate_Subtract(ctx, node)
           [] node.op = "MoveRight" -> translate_MoveRight(ctx, node)
           [] node.op = "MoveLeft" -> translate_MoveLeft(ctx, node)
           [] node.op = "StackPush" -> translate_StackPush(ctx, node)
           [] node.op = "StackPop" -> translate_StackPop(ctx, node)
           [] node.op = "Condition" -> translate_Condition(ctx, cc, node)
           [] node.op = "Function" ->
                translate_function_impl(ctx, cc, node.name, node.span, node.body)
           [] node.op = "FunctionCall" -> translate_FunctionCall(ctx, node)
           [] node.op = "ExternalFunctionCall" ->
                translate_ExternalFunctionCall(ctx, cc, node)
           [] OTHER -> Panic(ctx, node.span)

\* `for node in nodes { self.translate_ir_node_impl(code_asm, node)?; }`
translate_nodes(ctx, cc, nodes) ==
    IF nodes = <<>> \/ ctx.status # "ok" THEN ctx
    ELSE translate_nodes(translate_ir_node_impl(ctx, cc, Head(nodes)), cc, Tail(nodes))

(***************************************************************************)
(* Assembly (CodeAssembler::assemble_options, the BlockEncoder): the byte  *)
(* buffer, the offset of every instruction in it, and the address the      *)
(* block was assembled at.                                                 *)
(***************************************************************************)
RegNum(r) ==
    CASE r = "rcx" -> 1 [] r = "rdx" -> 2 [] r = "rsp" -> 4 [] r = "rsi" -> 6
      [] r = "rdi" -> 7 [] r = "r8" -> 8 [] r = "r9" -> 9

\* the ModRM (and SIB, displacement) bytes of a memory operand [base + disp]
\* with register field reg
ModRM(reg, base, disp) ==
    LET rm == RegNum(base) % 8
        sib == IF rm = 4 THEN <<36>> ELSE <<>>
        r3 == 8 * reg
    IN  IF disp = WZero THEN <<r3 + rm>> \o sib
        ELSE IF WFitsI8(disp) THEN <<64 + r3 + rm>> \o sib \o <<disp[1] % 256>>
        ELSE <<128 + r3 + rm>> \o sib \o WBytes32(disp)

\* REX prefix: 0100WR0B
Rex(w, reg, base) ==
    64 + (IF w THEN 8 ELSE 0) + (IF RegNum(reg) >= 8 THEN 4 ELSE 0)
       + (IF RegNum(base) >= 8 THEN 1 ELSE 0)

\* the bytes of an instruction whose branch displacement (if any) is rel
Encode(ins, rel) ==
    CASE ins.op = "add8" -> <<65, 128>> \o ModRM(0, ins.r1, WZero) \o <<ins.imm[1]>>
      [] ins.op = "sub8" -> <<65, 128>> \o ModRM(5, ins.r1, WZero) \o <<ins.imm[1]>>
      [] ins.op = "cmp8" -> <<65, 128>> \o ModRM(7, ins.r1, WZero) \o <<ins.imm[1]>>
      [] ins.op = "lea" ->
            <<Rex(TRUE, ins.r1, ins.r2), 141>> \o ModRM(RegNum(ins.r1) % 8, ins.r2, ins.imm)
      [] ins.op = "mov_al_m" -> <<65, 138>> \o ModRM(0, ins.r1, WZero)
      [] ins.op = "mov_m_al" -> <<65, 136>> \o ModRM(0, ins.r1, WZero)
      [] ins.op = "push" -> <<65, 80 + (RegNum(ins.r1) % 8)>>
      [] ins.op = "pop" -> <<65, 88 + (RegNum(ins.r1) % 8)>>
      [] ins.op = "je" -> <<116, rel % 256>>
      [] ins.op = "jmp" -> <<235, rel % 256>>
      [] ins.op = "call" -> <<232>> \o IntBytes32(rel)
      [] ins.op = "ret" -> <<195>>
      [] ins.op = "zero" -> <<>>

\* the length of an instruction (branches inside a block of the sizes
\* modelled here are always within reach of the short forms)
InsLen(ins) == Len(Encode(ins, 0))

\* new_instruction_offsets: the offset of every instruction
RECURSIVE OffsetsFrom(_, _)
OffsetsFrom(instrs, at) ==
    IF instrs = <<>> THEN <<>>
    ELSE <<at>> \o OffsetsFrom(Tail(instrs), at + InsLen(Head(instrs)))

\* the address a branch target resolves to: the instruction carrying the label
\* id, and the id itself taken as an address when no instruction carries it
TargetAddress(instrs, offsets, rip, id) ==
    LET at == {i \in 1..Len(instrs) : instrs[i].lbl = id}
    IN  IF at # {} THEN rip + offsets[CHOOSE i \in at : TRUE] ELSE id

RECURSIVE EncodeFrom(_, _, _, _)
EncodeFrom(instrs, offsets, rip, i) ==
    IF i > Len(instrs) THEN <<>>
    ELSE LET ins == instrs[i]
             next == rip + offsets[i] + InsLen(ins)
             rel == IF ins.tgt = 0 THEN 0
                    ELSE TargetAddress(instrs, offsets, rip, ins.tgt) - next
         IN  Encode(ins, rel) \o EncodeFrom(instrs, offsets, rip, i + 1)

\* CodeAssemblerResult
Assemble(instrs, rip) ==
    LET offsets == OffsetsFrom(instrs, 0)
    IN  [code_buffer |-> EncodeFrom(instrs, offsets, rip, 1),
         offsets |-> offsets, rip |-> rip]

\* CodeAssemblerResult::label_ip: the address of the instruction the label's
\* index names in this result
label_ip_ok(res, label) == label.idx \in 1..Len(res.offsets)

label_ip(res, label) == res.rip + res.offsets[label.idx]

(***************************************************************************)
(* The Compiler instance and the outcome of its latest request.            *)
(***************************************************************************)
VARIABLES
    calling_convention, \* Compiler.calling_convention
    base_address,       \* Compiler.settings.base_address
    external_calls,     \* Compiler.external_calls: name -> labels of its call sites
    scopes,             \* Compiler.scopes
    alive,              \* FALSE once a request has panicked
    nreq,               \* requests issued so far
    result,             \* what the latest request returned, and from what
    cpu                 \* the processor running the latest request's code

vars ==
    <<calling_convention, base_address, external_calls, scopes, alive, nreq, result, cpu>>

\* no code is loaded
NoCpu == [status |-> "idle"]

NoResult ==
    [kind |-> "none", ir |-> <<>>, outcome |-> "none", err |-> NoErr,
     instrs |-> <<>>, offsets |-> <<>>, code |-> <<>>, out |-> <<>>,
     symbols |-> <<>>, relocs |-> <<>>,
     pre_ext |-> <<>>, pre_sc |-> ScopeManagerNew]

\* Compiler::translate_ir_node: a fresh assembler, every node in turn
translate_ir_node(ext, sc, cc, ir) == translate_nodes(CtxNew(ext, sc), cc, ir)

\* the request's record when translation did not complete
Failed(kind, ir, ctx, ext, sc) ==
    [NoResult EXCEPT !.kind = kind, !.ir = ir, !.outcome = ctx.status, !.err = ctx.err,
                     !.instrs = ctx.instrs, !.pre_ext = ext, !.pre_sc = sc]

\* what compile_to_bytecode returns, given the finished translation
bytecode_result(ctx, ext, sc, base, ir) ==
    LET asm == Assemble(ctx.instrs, base)
    IN  IF ctx.status # "ok" THEN Failed("bytecode", ir, ctx, ext, sc)
        ELSE [NoResult EXCEPT !.kind = "bytecode", !.ir = ir, !.outcome = "ok",
                              !.instrs = ctx.instrs, !.offsets = asm.offsets,
                              !.code = asm.code_buffer, !.out = asm.code_buffer,
                              !.pre_ext = ext, !.pre_sc = sc]

(***************************************************************************)
(* The object builder (CompilerTrait::compile_to_object_file over          *)
(* object::write::Object).                                                 *)
(***************************************************************************)
Symbol(name, value, kind, section) ==
    [name |-> name, value |-> value, size |-> 0, kind |-> kind,
     scope |-> IF kind = "File" THEN "Compilation" ELSE "Dynamic", section |-> section]

\* the Relocation add_relocations_for_external_symbol adds for one call site
call_site_relocation(call_site, symbol) ==
    [offset |-> call_site + 1, symbol |-> symbol, addend |-> -4,
     kind |-> "Relative", encoding |-> "X86RipRelative", size |-> 32]

\* a set of strings in the order the maps are walked
RECURSIVE SetToSeq(_)
SetToSeq(S) ==
    IF S = {} THEN <<>>
    ELSE LET x == CHOOSE y \in S : TRUE IN <<x>> \o SetToSeq(S \ {x})

RECURSIVE Flatten(_)
Flatten(ss) == IF ss = <<>> THEN <<>> ELSE Head(ss) \o Flatten(Tail(ss))

IsFunctionNode(node) == node.op = "Function"

\* the partition of the top-level nodes and the synthesized entry function
fn_ast(ast) ==
    Append(SelectSeq(ast, IsFunctionNode),
           [Function("_start", SelectSeq(ast, LAMBDA nd : ~IsFunctionNode(nd)))
                EXCEPT !.span = 0])

\* the symbols created before translation: the file symbol, then one per
\* top-level Function node
pre_created_symbols(ast) ==
    <<Symbol("file", 0, "File", "none")>> \o
    [i \in 1..Len(SelectSeq(ast, IsFunctionNode)) |->
        Symbol(SelectSeq(ast, IsFunctionNode)[i].name, 0, "Text", "text")]

\* fn_symbol_map: the id of the latest pre-created symbol of a name
fn_symbol_map(pre, name) ==
    CHOOSE i \in 2..Len(pre) :
        pre[i].name = name /\ \A j \in (i + 1)..Len(pre) : pre[j].name # name

\* the labels of every recorded external call site
AllCallSites(ext) == Flatten([i \in 1..Len(SetToSeq(DOMAIN ext)) |-> ext[SetToSeq(DOMAIN ext)[i]]])

\* the zero-based indices the neutralising loop writes for one call site
patched_indices(ip) == (ip + 1)..(ip + 4)

\* `result.inner.code_buffer[i as usize] = 0` for every call site
neutralise(code, ips) ==
    [i \in 1..Len(code) |->
        IF \E k \in 1..Len(ips) : (i - 1) \in patched_indices(ips[k]) THEN 0 ELSE code[i]]

\* every index the loop writes is inside the buffer
neutralise_in_bounds(code, ips) ==
    \A k \in 1..Len(ips) : \A i \in patched_indices(ips[k]) : i < Len(code)

\* the undefined symbol and the relocations of each external name, in map order
external_symbols(ext) ==
    [i \in 1..Len(SetToSeq(DOMAIN ext)) |->
        Symbol(SetToSeq(DOMAIN ext)[i], 0, "Text", "undefined")]

external_relocations(ext, asm, first_symbol) ==
    Flatten([i \in 1..Len(SetToSeq(DOMAIN ext)) |->
        [k \in 1..Len(ext[SetToSeq(DOMAIN ext)[i]]) |->
            call_site_relocation(label_ip(asm, ext[SetToSeq(DOMAIN ext)[i]][k]),
                                 first_symbol + i - 1)]])

\* the symbol table once every value is set: the pre-created symbols take the
\* address of their function, the entry symbol that of _start
final_symbols(pre, globals, ext, sc, asm) ==
    LET start_id == Len(pre) + Len(globals) + 1
        all == pre
               \o [i \in 1..Len(globals) |->
                      Symbol(globals[i].name, label_ip(asm, globals[i].label), "Text", "text")]
               \o <<Symbol("_start", 0, "Text", "text")>>
               \o external_symbols(ext)
    IN  [i \in 1..Len(all) |->
            IF i = start_id
            THEN [all[i] EXCEPT !.value = label_ip(asm, get_fn(sc, "_start"))]
            ELSE IF i \in 2..Len(pre) /\ fn_symbol_map(pre, all[i].name) = i
            THEN [all[i] EXCEPT !.value = label_ip(asm, get_fn(sc, all[i].name))]
            ELSE all[i]]

\* what compile_to_object_file returns, given the finished translation
object_result(ctx, ext, sc, base, ast) ==
    LET pre == pre_created_symbols(ast)
        asm == Assemble(ctx.instrs, base)
        globals == get_global_functions(ctx.sc)
        sites == AllCallSites(ctx.ext)
        ips == [k \in 1..Len(sites) |-> label_ip(asm, sites[k])]
        panicked == [Failed("object", ast, ctx, ext, sc) EXCEPT
                        !.outcome = "panic",
                        !.err = [NoErr EXCEPT !.kind = "expect"],
                        !.offsets = asm.offsets, !.code = asm.code_buffer]
    IN  IF ctx.status # "ok" THEN Failed("object", ast, ctx, ext, sc)
        ELSE IF \E i \in 1..Len(globals) : ~label_ip_ok(asm, globals[i].label)
        THEN panicked
        ELSE IF \E k \in 1..Len(sites) : ~label_ip_ok(asm, sites[k])
        THEN panicked
        ELSE IF ~neutralise_in_bounds(asm.code_buffer, ips)
        THEN panicked
        ELSE [NoResult EXCEPT
                !.kind = "object", !.ir = ast, !.outcome = "ok",
                !.instrs = ctx.instrs, !.offsets = asm.offsets,
                !.code = asm.code_buffer,
                !.out = neutralise(asm.code_buffer, ips),
                !.symbols = final_symbols(pre, globals, ctx.ext, ctx.sc, asm),
                !.relocs = external_relocations(ctx.ext, asm,
                                                Len(pre) + Len(globals) + 2),
                !.pre_ext = ext, !.pre_sc = sc]

(***************************************************************************)
(* Requests.                                                               *)
(***************************************************************************)
\* the top-level nodes requests are built from
TopNodes ==
    { Add(NatW(1)),
      FunctionCall("f"),
      ExternalFunctionCall("a"),
      OtherOp,
      MoveRight(W(0, 32768, 0, 0)),
      Function("f", <<FunctionCall("f")>>),
      Function("f", <<FunctionCall("g")>>),
      Function("g", <<Condition(<<ExternalFunctionCall("b")>>)>>),
      Condition(<<ExternalFunctionCall("a")>>),
      Function("g", <<Function("f", <<>>)>>) }

Programs == {Stamp(p, 0) : p \in UNION {[1..k -> TopNodes] : k \in 0..MaxProgLen}}

\* operands around the limits of an 8-bit and of a 32-bit displacement
MoveOperands ==
    {W(a, b, c, 0) : a \in {0, 1, 127, 128, 129, 65535},
                     b \in {0, 1, 32767, 32768, 65535},
                     c \in {0, 1}}

\* the single-node (and move round-trip) requests of the arithmetic specification
ArithPrograms ==
    {Stamp(p, 0) : p \in
        {<<Add(NatW(n))>> : n \in 0..MaxArithN}
        \cup {<<Subtract(NatW(n))>> : n \in 0..MaxArithN}
        \cup {<<MoveRight(w)>> : w \in MoveOperands}
        \cup {<<MoveLeft(w)>> : w \in MoveOperands}
        \cup {<<MoveRight(w), MoveLeft(w)>> : w \in MoveOperands}}

Init ==
    /\ calling_convention \in CallingConventions
    /\ base_address \in BaseAddresses
    /\ external_calls = <<>>
    /\ scopes = ScopeManagerNew
    /\ alive = TRUE
    /\ nreq = 0
    /\ result = NoResult
    /\ cpu = NoCpu

\* CompilerTrait::compile_to_bytecode
compile_to_bytecode(ir) ==
    /\ alive
    /\ nreq < MaxRequests
    /\ LET ctx == translate_ir_node(external_calls, scopes, calling_convention, ir)
       IN  /\ result' = bytecode_result(ctx, external_calls, scopes, base_address, ir)
           /\ external_calls' = ctx.ext
           /\ scopes' = ctx.sc
    /\ alive' = (result'.outcome # "panic")
    /\ nreq' = nreq + 1
    /\ UNCHANGED <<calling_convention, base_address, cpu>>

\* CompilerTrait::compile_to_object_file
compile_to_object_file(ast) ==
    /\ alive
    /\ nreq < MaxRequests
    /\ LET ctx == translate_ir_node(external_calls, scopes, calling_convention, fn_ast(ast))
       IN  /\ result' = object_result(ctx, external_calls, scopes, base_address, ast)
           /\ external_calls' = ctx.ext
           /\ scopes' = ctx.sc
    /\ alive' = (result'.outcome # "panic")
    /\ nreq' = nreq + 1
    /\ UNCHANGED <<calling_convention, base_address, cpu>>

Next ==
    \/ \E ir \in Programs : compile_to_bytecode(ir)
    \/ \E ast \in Programs : compile_to_object_file(ast)

Spec == Init /\ [][Next]_vars

\* one request on a fresh Compiler, drawn from the arithmetic requests
ArithRequest(ir) == nreq = 0 /\ compile_to_bytecode(ir)

NextArith == \E ir \in ArithPrograms : ArithRequest(ir)

SpecArith == Init /\ [][NextArith]_vars

(***************************************************************************)
(* What the claims speak of, read off the latest request.                  *)
(***************************************************************************)
\* the node sequence the request handed to the translator, in document order
Translated == IF result.kind = "object" THEN fn_ast(result.ir) ELSE result.ir

Nodes == PreOrder(Translated)

\* translation stopped at a node (an error value or todo!())
TranslationFailed ==
    result.outcome = "err" \/ (result.outcome = "panic" /\ result.err.kind = "todo")

\* the position in Nodes translation stopped at; past the end when it completed
FailPos ==
    IF TranslationFailed
    THEN CHOOSE i \in 1..Len(Nodes) : Nodes[i].span = result.err.span
    ELSE Len(Nodes) + 1

\* the positions translation got to
Reached == {i \in 1..Len(Nodes) : i <= FailPos}

\* the instructions emitted for the node with a span
EmittedFor(span) == {k \in 1..Len(result.instrs) : result.instrs[k].node = span}

Min(S) == CHOOSE x \in S : \A y \in S : x <= y

\* the positions of the ExternalFunctionCall nodes translated to the end
ExtPositions ==
    {i \in Reached : Nodes[i].op = "ExternalFunctionCall" /\ i # FailPos}

\* the call instruction emitted for an ExternalFunctionCall node
CallOf(i) ==
    CHOOSE k \in EmittedFor(Nodes[i].span) : result.instrs[k].op = "call"

UndefinedSymbols(name) ==
    {j \in 1..Len(result.symbols) :
        result.symbols[j].section = "undefined" /\ result.symbols[j].name = name}

DefinedSymbols(name) ==
    {j \in 1..Len(result.symbols) :
        result.symbols[j].section = "text" /\ result.symbols[j].name = name}

SymbolNames == {result.symbols[j].name : j \in 1..Len(result.symbols)}

\* the top-level Function nodes the translator was handed (the declared ones
\* and the synthesized entry function)
TopFunctions == {i \in 1..Len(Translated) : Translated[i].op = "Function"}

\* the in-section offset a translated Function node starts at
EntryOffset(span) == result.offsets[Min(EmittedFor(span))]

ObjectBuilt == result.kind = "object" /\ result.outcome = "ok"

(***************************************************************************)
(* C1                                                                      *)
(***************************************************************************)
\* C1: every compile request issued on a Compiler instance starts with an
\* empty Function Registry, an empty scope stack and an empty external-call
\* table: nothing an earlier request recorded is visible to it.
C1_RequestStartsFresh ==
    result.kind # "none" =>
        /\ DOMAIN result.pre_ext = {}
        /\ result.pre_sc.fns = <<>>
        /\ result.pre_sc.stack = <<>>

(***************************************************************************)
(* C2                                                                      *)
(***************************************************************************)
\* the artifact has one undefined symbol per distinct external name of the
\* program and one relocation per ExternalFunctionCall node, at the address of
\* its call instruction plus one, addend -4, 32-bit relative, referencing the
\* undefined symbol of the called name
ExternalsMatchProgram ==
    /\ \A name \in SymbolNames \cup {Nodes[i].name : i \in ExtPositions} :
          Cardinality(UndefinedSymbols(name)) =
              IF name \in {Nodes[i].name : i \in ExtPositions} THEN 1 ELSE 0
    /\ Len(result.relocs) = Cardinality(ExtPositions)
    /\ \A i \in ExtPositions :
          \E r \in 1..Len(result.relocs) :
             /\ result.relocs[r].offset = base_address + result.offsets[CallOf(i)] + 1
             /\ result.relocs[r].addend = -4
             /\ result.relocs[r].kind = "Relative"
             /\ result.relocs[r].size = 32
             /\ result.relocs[r].symbol \in UndefinedSymbols(Nodes[i].name)

\* C2: compile_to_object_file on any program produces exactly one undefined
\* symbol per distinct external function name referenced in the program and
\* exactly one relocation per ExternalFunctionCall node translated, each with
\* offset = address of the call instruction + 1, addend -4, 32-bit relative
\* kind, referencing the undefined symbol of the called name.
C2_ExternalSymbolsAndRelocations == ObjectBuilt => ExternalsMatchProgram

\* the same on the first request of an instance
C2_OnFreshCompiler == (ObjectBuilt /\ nreq = 1) => ExternalsMatchProgram

(***************************************************************************)
(* C3                                                                      *)
(***************************************************************************)
\* C3: the object artifact contains exactly one function symbol per top-level
\* declared function name, valued at that function's resolved entry offset,
\* and exactly one entry symbol _start valued at the entry function's offset;
\* no function name appears as more than one defined symbol.
C3_OneSymbolPerFunction ==
    ObjectBuilt =>
        \A i \in TopFunctions :
            /\ Cardinality(DefinedSymbols(Translated[i].name)) = 1
            /\ (\A j \in TopFunctions : Translated[j].name = Translated[i].name => j <= i)
                => \A s \in DefinedSymbols(Translated[i].name) :
                      result.symbols[s].value = EntryOffset(Translated[i].span)

(***************************************************************************)
(* C4                                                                      *)
(***************************************************************************)
\* the Function nodes whose translation began before position i
FunctionsBefore(i) == {j \in 1..(i - 1) : Nodes[j].op = "Function"}

\* the names registered when position i is translated: those the request
\* found in the registry and those of the functions begun before i
RegisteredAt(i) ==
    FnNames(result.pre_sc) \cup {Nodes[j].name : j \in FunctionsBefore(i)}

\* the id of the entry label the registry holds for a name at position i: the
\* label bound to the first instruction after the opening zero-byte marker of
\* the latest function of that name, or the one the request found registered
EntryLabelAt(i, name) ==
    LET mine == {j \in FunctionsBefore(i) : Nodes[j].name = name}
        last == CHOOSE j \in mine : \A k \in mine : k <= j
    IN  IF mine # {}
        THEN result.instrs[Min(EmittedFor(Nodes[last].span)) + 1].lbl
        ELSE get_fn(result.pre_sc, name).id

\* C4: translating FunctionCall(name) succeeds and emits a direct call to the
\* function's entry label if and only if name was registered earlier in
\* translation order (the function being translated included); otherwise it
\* fails with function-not-found carrying the call's span and emits no call.
C4_CallResolvesIffRegistered ==
    result.kind # "none" =>
        \A i \in Reached :
            Nodes[i].op = "FunctionCall" =>
                IF Nodes[i].name \in RegisteredAt(i)
                THEN /\ i # FailPos
                     /\ Cardinality(EmittedFor(Nodes[i].span)) = 1
                     /\ \A k \in EmittedFor(Nodes[i].span) :
                           /\ result.instrs[k].op = "call"
                           /\ result.instrs[k].tgt = EntryLabelAt(i, Nodes[i].name)
                ELSE /\ i = FailPos
                     /\ result.outcome = "err"
                     /\ result.err.kind = "FunctionNotFound"
                     /\ result.err.name = Nodes[i].name
                     /\ result.err.span = Nodes[i].span
                     /\ EmittedFor(Nodes[i].span) = {}

\* a self-recursive call was translated, and a call to a later sibling failed
C4_Witness ==
    /\ result.kind = "bytecode"
    /\ nreq = 1
    /\ Len(result.ir) = 2
    /\ result.ir[1].op = "Function" /\ result.ir[1].name = "f"
    /\ result.ir[1].body[1].op = "FunctionCall" /\ result.ir[1].body[1].name = "f"
    /\ result.ir[2].op = "Function" /\ result.ir[2].name = "f"
    /\ result.ir[2].body[1].op = "FunctionCall" /\ result.ir[2].body[1].name = "g"
    /\ result.outcome = "err"
    /\ result.err.kind = "FunctionNotFound"
    /\ \E k \in 1..Len(result.instrs) : result.instrs[k].op = "call"

(***************************************************************************)
(* C5                                                                      *)
(***************************************************************************)
SupportedOps ==
    {"Add", "Subtract", "MoveRight", "MoveLeft", "StackPush", "StackPop",
     "Condition", "Function", "FunctionCall", "ExternalFunctionCall"}

\* C5: for every IR operation kind other than the ten supported ones,
\* translation returns an explicit unsupported-operation error value to the
\* caller: the request ends in an error result, not in a panic and not in
\* silent success.
C5_UnsupportedOperationIsAnError ==
    \A i \in Reached :
        Nodes[i].op \notin SupportedOps =>
            /\ i = FailPos
            /\ result.outcome = "err"
            /\ result.err.kind = "UnsupportedOperation"
            /\ result.err.span = Nodes[i].span

(***************************************************************************)
(* C6                                                                      *)
(***************************************************************************)
SameCallTable(a, b) ==
    /\ DOMAIN a = DOMAIN b
    /\ \A k \in DOMAIN a : a[k] = b[k]

\* C6: when the configured calling convention is neither System V AMD64 nor
\* Microsoft x64, translating an ExternalFunctionCall fails fast with an
\* unsupported-calling-convention error returned to the caller; it does not
\* fall back to another convention and records no call site for the name.
C6_UnsupportedConventionIsAnError ==
    calling_convention \notin {"X86_64_SystemVAMD64", "X86_64_MicrosoftX64"} =>
        \A i \in Reached :
            Nodes[i].op = "ExternalFunctionCall" =>
                /\ i = FailPos
                /\ result.outcome = "err"
                /\ result.err.kind = "UnsupportedCallingConvention"
                /\ \A k \in EmittedFor(Nodes[i].span) : result.instrs[k].op = "zero"
                /\ SameCallTable(external_calls, result.pre_ext)

(***************************************************************************)
(* C7                                                                      *)
(***************************************************************************)
\* the assembled buffer with the four operand bytes of every external call of
\* the program zeroed, by in-section offset
ExpectedText ==
    [b \in 1..Len(result.code) |->
        IF \E i \in ExtPositions :
              (b - 1) \in (result.offsets[CallOf(i)] + 1)..(result.offsets[CallOf(i)] + 4)
        THEN 0 ELSE result.code[b]]

\* the request built its artifact, the text section is the assembled buffer
\* with exactly the call operands zeroed, every relocation offset is the
\* in-section offset of a call operand and every defined symbol is valued at
\* the in-section offset a function of its name starts at
ObjectIsBaseIndependent ==
    /\ result.outcome = "ok"
    /\ result.out = ExpectedText
    /\ \A r \in 1..Len(result.relocs) :
          \E i \in ExtPositions :
             result.relocs[r].offset = result.offsets[CallOf(i)] + 1
    /\ \A s \in 1..Len(result.symbols) :
          result.symbols[s].section = "text" =>
             \E i \in 1..Len(Nodes) :
                /\ Nodes[i].op = "Function"
                /\ Nodes[i].name = result.symbols[s].name
                /\ result.symbols[s].value = EntryOffset(Nodes[i].span)

\* C7: the configured base address influences only the raw-bytecode output:
\* for every base address, compile_to_object_file zeroes exactly the four
\* bytes at in-section offset call site + 1 .. call site + 4 of each external
\* call site (every index written lies inside the buffer, every other byte is
\* unchanged), and symbol values and relocation offsets are in-section offsets.
C7_ObjectIgnoresBaseAddress ==
    (result.kind = "object" /\ ~TranslationFailed) => ObjectIsBaseIndependent

\* the same on the first request of an instance configured with base address 0
C7_AtBaseZero ==
    (result.kind = "object" /\ ~TranslationFailed /\ nreq = 1 /\ base_address = 0)
        => ObjectIsBaseIndependent

(***************************************************************************)
(* Execution of the straight-line instructions on the machine: the         *)
(* registers are words, memory is a map from the addresses in use to bytes.*)
(***************************************************************************)
Machine(r8, r9, mem) ==
    [regs |-> [r \in {"r8", "r9"} |-> IF r = "r8" THEN r8 ELSE r9], al |-> 0, mem |-> mem]

\* one instruction
ExecIns(m, ins) ==
    CASE ins.op = "add8" ->
            [m EXCEPT !.mem[m.regs[ins.r1]] = (@ + ins.imm[1]) % 256]
      [] ins.op = "sub8" ->
            [m EXCEPT !.mem[m.regs[ins.r1]] = (@ - ins.imm[1]) % 256]
      [] ins.op = "lea" ->
            [m EXCEPT !.regs[ins.r1] = WAdd(m.regs[ins.r2], ins.imm)]
      [] ins.op = "mov_al_m" -> [m EXCEPT !.al = m.mem[m.regs[ins.r1]]]
      [] ins.op = "mov_m_al" -> [m EXCEPT !.mem[m.regs[ins.r1]] = m.al]
      [] ins.op = "zero" -> m

\* a sequence of them, in order
RECURSIVE ExecAll(_, _)
ExecAll(m, instrs) ==
    IF instrs = <<>> THEN m ELSE ExecAll(ExecIns(m, Head(instrs)), Tail(instrs))

\* the tape cell the data pointer selects in the runs below, and the pointer
\* values they start from
CellAddress == NatW(4096)

StackAddress == NatW(8192)

CellMachine(v) == Machine(CellAddress, StackAddress, CellAddress :> v)

PointerSamples ==
    {WZero, NatW(1), CellAddress, W(65535, 32767, 0, 0), W(0, 32768, 0, 0),
     W(65535, 65535, 65535, 65535), W(0, 0, 0, 32768)}

SingleNode(op) ==
    /\ result.kind = "bytecode"
    /\ Len(result.ir) = 1
    /\ result.ir[1].op = op

RECURSIVE SumImm(_)
SumImm(instrs) ==
    IF instrs = <<>> THEN 0 ELSE WNat(Head(instrs).imm) + SumImm(Tail(instrs))

(***************************************************************************)
(* C8                                                                      *)
(***************************************************************************)
\* C8: for every n, translating Add(n) emits only add-immediate instructions
\* on the data-pointer byte, whose immediates each lie in 0..255 and sum to
\* exactly n, all but the last being 255; executed on an initial cell value v
\* they leave (v + n) mod 256 in the cell.
C8_AddChunksSumToN ==
    SingleNode("Add") =>
        /\ result.outcome = "ok"
        /\ Len(result.instrs) >= 1
        /\ \A k \in 1..Len(result.instrs) :
              /\ result.instrs[k].op = "add8"
              /\ result.instrs[k].r1 = "r8"
              /\ ~WGt(result.instrs[k].imm, NatW(255))
              /\ k < Len(result.instrs) => result.instrs[k].imm = NatW(255)
        /\ SumImm(result.instrs) = WNat(result.ir[1].n)
        /\ \A v \in 0..255 :
              ExecAll(CellMachine(v), result.instrs).mem[CellAddress]
                  = (v + WNat(result.ir[1].n)) % 256

\* Add(300) was translated to exactly 255 then 45
C8_Witness ==
    /\ SingleNode("Add")
    /\ result.ir[1].n = NatW(300)
    /\ result.outcome = "ok"
    /\ Len(result.instrs) = 2
    /\ result.instrs[1].imm = NatW(255)
    /\ result.instrs[2].imm = NatW(45)
    /\ result.out = <<65, 128, 0, 255, 65, 128, 0, 45>>

(***************************************************************************)
(* C9                                                                      *)
(***************************************************************************)
\* C9: for every n (including n > 255), translating Subtract(n) succeeds and
\* emits a single subtract on the data-pointer byte whose 8-bit immediate is
\* n mod 256; executed on an initial cell value v it leaves (v - n) mod 256.
C9_SubtractWrapsModulo256 ==
    SingleNode("Subtract") =>
        /\ result.outcome = "ok"
        /\ Len(result.instrs) = 1
        /\ result.instrs[1].op = "sub8"
        /\ result.instrs[1].r1 = "r8"
        /\ result.instrs[1].imm = NatW(WNat(result.ir[1].n) % 256)
        /\ \A v \in 0..255 :
              ExecAll(CellMachine(v), result.instrs).mem[CellAddress]
                  = (v - WNat(result.ir[1].n)) % 256

\* the same for the operands an 8-bit immediate can hold
C9_UpTo255 ==
    (SingleNode("Subtract") /\ ~WGt(result.ir[1].n, NatW(255))) =>
        /\ result.outcome = "ok"
        /\ Len(result.instrs) = 1
        /\ result.instrs[1].op = "sub8"
        /\ result.instrs[1].imm = result.ir[1].n
        /\ \A v \in 0..255 :
              ExecAll(CellMachine(v), result.instrs).mem[CellAddress]
                  = (v - WNat(result.ir[1].n)) % 256

(***************************************************************************)
(* C10                                                                     *)
(***************************************************************************)
IsMove(node) == node.op \in {"MoveRight", "MoveLeft"}

\* the data pointer after a move of n from p
Moved(node, p) ==
    IF node.op = "MoveRight" THEN WAdd(p, node.n) ELSE WSub(p, node.n)

MoveRequest ==
    /\ result.kind = "bytecode"
    /\ Len(result.ir) >= 1
    /\ \A i \in 1..Len(result.ir) : IsMove(result.ir[i])

TooLarge(node) == WGt(node.n, W(65535, 32767, 0, 0))

\* C10: translating MoveRight(n) or MoveLeft(n) with n > 0x7FFFFFFF fails with
\* displacement-too-large carrying the node's span and emits no instruction
\* for that node; with n <= 0x7FFFFFFF it emits exactly one address
\* computation that changes the data pointer by +n or -n, so MoveRight(n)
\* followed by MoveLeft(n) restores the data pointer.
C10_MoveDisplacement ==
    MoveRequest =>
        /\ \A i \in Reached :
              IF TooLarge(Nodes[i])
              THEN /\ i = FailPos
                   /\ result.outcome = "err"
                   /\ result.err.kind = "MoveTooLarge"
                   /\ result.err.span = Nodes[i].span
                   /\ EmittedFor(Nodes[i].span) = {}
              ELSE /\ i # FailPos
                   /\ Cardinality(EmittedFor(Nodes[i].span)) = 1
                   /\ \A k \in EmittedFor(Nodes[i].span) :
                         /\ result.instrs[k].op = "lea"
                         /\ result.instrs[k].r1 = "r8"
                         /\ \A p \in PointerSamples :
                               ExecIns(Machine(p, StackAddress, <<>>), result.instrs[k]).regs["r8"]
                                   = Moved(Nodes[i], p)
        /\ (Len(result.ir) = 2 /\ result.outcome = "ok") =>
              \A p \in PointerSamples :
                 ExecAll(Machine(p, StackAddress, <<>>), result.instrs).regs
                     = Machine(p, StackAddress, <<>>).regs

\* MoveRight(0x7FFFFFFF); MoveLeft(0x7FFFFFFF) was translated to two
\* instructions
C10_Witness ==
    /\ MoveRequest
    /\ Len(result.ir) = 2
    /\ result.ir[1].n = W(65535, 32767, 0, 0)
    /\ result.outcome = "ok"
    /\ Len(result.instrs) = 2

\* MoveRight(0x80000000) was refused
C10_WitnessTooLarge ==
    /\ MoveRequest
    /\ Len(result.ir) = 1
    /\ result.ir[1].n = W(0, 32768, 0, 0)
    /\ result.outcome = "err"


(***************************************************************************)
(* Running the emitted code: the processor executes the instructions of    *)
(* the latest raw-bytecode result one at a time.  Branches go where the    *)
(* displacement byte in the buffer says; a call at a recorded external     *)
(* call site runs a callee that is free to update the two save slots it    *)
(* was handed and to clobber the volatile registers, and that preserves    *)
(* the native stack pointer.                                               *)
(***************************************************************************)
MaxCell == 3

MaxIters == 4

\* the native stack pointer at entry and the 8-byte slots below it
StackBase == NatW(16384)

Slots == {WSub(StackBase, NatW(8 * k)) : k \in 1..4}

\* the tape bytes the runs may touch
TapeAddresses ==
    {WAdd(CellAddress, NatW(i)) : i \in 0..2} \cup {WAdd(StackAddress, NatW(i)) : i \in 0..2}

\* what a register holds before anything was loaded into it
Junk == W(43690, 43690, 43690, 43690)

Registers == {"r8", "r9", "rsp", "rdi", "rsi", "rcx", "rdx"}

\* the Condition nodes of the translated program
CondSpans == {Nodes[i].span : i \in {j \in 1..Len(Nodes) : Nodes[j].op = "Condition"}}

CpuAt(v, w) ==
    [status |-> "running", pc |-> 1, last |-> 0,
     regs |-> [r \in Registers |->
                  CASE r = "r8" -> CellAddress
                    [] r = "r9" -> StackAddress
                    [] r = "rsp" -> StackBase
                    [] OTHER -> Junk],
     al |-> 0, zf |-> FALSE,
     mem |-> [a \in TapeAddresses |->
                 IF a = CellAddress THEN v
                 ELSE IF a = WAdd(CellAddress, NatW(1)) THEN w ELSE 0],
     stk |-> [a \in Slots |-> Junk],
     iters |-> [c \in CondSpans |-> 0],
     v0 |-> v]

Max(S) == CHOOSE x \in S : \A y \in S : x >= y

\* the byte offset of an instruction index; the end of the buffer past the last
OffsetOf(k) == IF k \in 1..Len(result.offsets) THEN result.offsets[k] ELSE Len(result.out)

\* the instruction that executes at a byte offset: the one of non-zero length
\* there (the zero-length ones before it occupy no byte)
IndexAt(off) ==
    LET at == {j \in 1..Len(result.offsets) : result.offsets[j] = off}
    IN  IF at = {} THEN Len(result.instrs) + 1 ELSE Max(at)

Signed8(b) == IF b >= 128 THEN b - 256 ELSE b

\* where the short branch at index k goes, read from the buffer
BranchTarget(k) ==
    result.offsets[k] + 2 + Signed8(result.out[result.offsets[k] + 2])

\* the call at index k is a recorded external call site
IsCallSite(k) ==
    \E name \in DOMAIN external_calls :
       \E i \in 1..Len(external_calls[name]) :
          /\ external_calls[name][i].idx = k
          /\ external_calls[name][i].id = result.instrs[k].lbl

\* the argument registers of the configured convention
ArgRegisters ==
    IF calling_convention = "X86_64_MicrosoftX64" THEN <<"rcx", "rdx">> ELSE <<"rdi", "rsi">>

Goes(m, k) ==
    [m EXCEPT !.last = m.pc, !.pc = k,
              !.status = IF k > Len(result.instrs) THEN "halted" ELSE "running"]

Fault(m) == [m EXCEPT !.status = "fault"]

\* one instruction at cpu.pc
ExecStep(m) ==
    LET ins == result.instrs[m.pc]
        next == m.pc + 1
    IN  CASE ins.op \in {"add8", "sub8", "mov_al_m", "mov_m_al"} ->
               IF m.regs[ins.r1] \in DOMAIN m.mem
               THEN Goes(ExecIns(m, ins), next) ELSE Fault(m)
          [] ins.op = "cmp8" ->
               IF m.regs[ins.r1] \in DOMAIN m.mem
               THEN Goes([m EXCEPT !.zf = (m.mem[m.regs[ins.r1]] = ins.imm[1])], next)
               ELSE Fault(m)
          [] ins.op \in {"lea", "zero"} -> Goes(ExecIns(m, ins), next)
          [] ins.op = "je" ->
               IF m.zf THEN Goes(m, IndexAt(BranchTarget(m.pc)))
               ELSE Goes([m EXCEPT !.iters[ins.node] = Min({@ + 1, MaxIters})], next)
          [] ins.op = "jmp" -> Goes(m, IndexAt(BranchTarget(m.pc)))
          [] ins.op = "push" ->
               LET sp == WSub(m.regs["rsp"], NatW(8))
               IN  IF sp \in DOMAIN m.stk
                   THEN Goes([m EXCEPT !.regs["rsp"] = sp, !.stk[sp] = m.regs[ins.r1]], next)
                   ELSE Fault(m)
          [] ins.op = "pop" ->
               IF m.regs["rsp"] \in DOMAIN m.stk
               THEN Goes([m EXCEPT !.regs[ins.r1] = m.stk[m.regs["rsp"]],
                                   !.regs["rsp"] = WAdd(m.regs["rsp"], NatW(8))], next)
               ELSE Fault(m)
          [] ins.op = "call" ->
               LET sp == WSub(m.regs["rsp"], NatW(8))
               IN  IF IsCallSite(m.pc) /\ sp \in DOMAIN m.stk
                   THEN [m EXCEPT !.status = "in_callee", !.regs["rsp"] = sp,
                                  !.stk[sp] = NatW(OffsetOf(next))]
                   ELSE Fault(m)
          [] OTHER -> [m EXCEPT !.status = "halted", !.last = m.pc]

\* the callee stores a and b through its first and second argument, clobbers
\* the volatile registers and returns
ExecCallee(m, a, b) ==
    LET p1 == m.regs[ArgRegisters[1]]
        p2 == m.regs[ArgRegisters[2]]
        sp == m.regs["rsp"]
    IN  IF p1 \in DOMAIN m.stk /\ p2 \in DOMAIN m.stk /\ p1 # sp /\ p2 # sp /\ p1 # p2
        THEN Goes([m EXCEPT !.stk[p1] = a, !.stk[p2] = b,
                            !.regs = [r \in Registers |->
                                         IF r = "rsp" THEN WAdd(sp, NatW(8)) ELSE Junk],
                            !.al = 0],
                  IndexAt(WNat(m.stk[sp])))
        ELSE Fault(m)

\* the programs that are run
RunPrograms ==
    {Stamp(p, 0) : p \in
        { <<Condition(<<Subtract(NatW(1))>>)>>,
          <<Condition(<<>>)>>,
          <<Condition(<<Add(NatW(1))>>)>>,
          <<Condition(<<MoveRight(NatW(1))>>)>>,
          <<Condition(<<Subtract(NatW(1)), Condition(<<Subtract(NatW(1))>>)>>)>>,
          <<Condition(<<Subtract(NatW(1))>>), Condition(<<Add(NatW(1))>>)>>,
          <<Add(NatW(2)), Condition(<<StackPush, Subtract(NatW(1))>>)>>,
          <<Condition(<<ExternalFunctionCall("a")>>)>>,
          <<StackPush, StackPop>>,
          <<StackPush>>,
          <<StackPop>>,
          <<StackPush, Add(NatW(1)), StackPop>>,
          <<ExternalFunctionCall("a")>>,
          <<ExternalFunctionCall("a"), ExternalFunctionCall("b")>>,
          <<StackPush, ExternalFunctionCall("a"), StackPop>> }}

\* a request on a new Compiler whose code is then run
RunRequest(ir) ==
    /\ nreq = 0
    /\ alive
    /\ LET ctx == translate_ir_node(external_calls, scopes, calling_convention, ir)
       IN  /\ result' = bytecode_result(ctx, external_calls, scopes, base_address, ir)
           /\ external_calls' = ctx.ext
           /\ scopes' = ctx.sc
    /\ alive' = (result'.outcome # "panic")
    /\ nreq' = nreq + 1
    /\ UNCHANGED <<calling_convention, base_address, cpu>>

\* the code is entered with the data pointer on a cell holding v
Load(v, w) ==
    /\ result.kind = "bytecode"
    /\ result.outcome = "ok"
    /\ cpu.status = "idle"
    /\ cpu' = IF result.instrs = <<>> THEN [CpuAt(v, w) EXCEPT !.status = "halted"]
              ELSE CpuAt(v, w)
    /\ UNCHANGED <<calling_convention, base_address, external_calls, scopes, alive, nreq,
                   result>>

Step ==
    /\ cpu.status = "running"
    /\ cpu' = ExecStep(cpu)
    /\ UNCHANGED <<calling_convention, base_address, external_calls, scopes, alive, nreq,
                   result>>

CalleeReturns(a, b) ==
    /\ cpu.status = "in_callee"
    /\ cpu' = ExecCallee(cpu, a, b)
    /\ UNCHANGED <<calling_convention, base_address, external_calls, scopes, alive, nreq,
                   result>>

\* what a callee may leave in the save slot of the data pointer and in that
\* of the auxiliary pointer
CalleeData == {CellAddress, WAdd(CellAddress, NatW(1))}

CalleeAux == {StackAddress, WAdd(StackAddress, NatW(1))}

NextRun ==
    \/ \E ir \in RunPrograms : RunRequest(ir)
    \/ \E v \in 0..MaxCell, w \in {0, 1} : Load(v, w)
    \/ Step
    \/ \E a \in CalleeData, b \in CalleeAux : CalleeReturns(a, b)

SpecRun == Init /\ [][NextRun]_vars


(***************************************************************************)
(* C11                                                                     *)
(***************************************************************************)
NodeOf(span) == Nodes[CHOOSE i \in 1..Len(Nodes) : Nodes[i].span = span]

\* the instructions emitted for the nodes inside a Condition's body
BodyIns(span) ==
    LET inner == PreOrder(NodeOf(span).body)
    IN  {k \in 1..Len(result.instrs) :
            \E j \in 1..Len(inner) : inner[j].span = result.instrs[k].node}

\* the loop of a Condition node: its compare, its two branches and its end
CmpIdx(span) == Min(EmittedFor(span)) + 1

JeIdx(span) == Min(EmittedFor(span)) + 2

JmpIdx(span) == Max(EmittedFor(span)) - 1

EndIdx(span) == Max(EmittedFor(span))

BoundOnce(id) ==
    id # 0 /\ Cardinality({k \in 1..Len(result.instrs) : result.instrs[k].lbl = id}) = 1

\* start label, compare with zero, jump-if-zero to the end label, the body,
\* jump to the start label, end label
ConditionLayout(span) ==
    LET ins == result.instrs
        first == Min(EmittedFor(span))
    IN  /\ EmittedFor(span) =
              {first, CmpIdx(span), JeIdx(span), JmpIdx(span), EndIdx(span)}
        /\ Cardinality(EmittedFor(span)) = 5
        /\ ins[first].op = "zero"
        /\ ins[CmpIdx(span)].op = "cmp8"
        /\ ins[CmpIdx(span)].r1 = "r8"
        /\ ins[CmpIdx(span)].imm = WZero
        /\ BoundOnce(ins[CmpIdx(span)].lbl)
        /\ ins[JeIdx(span)].op = "je"
        /\ ins[JeIdx(span)].tgt = ins[EndIdx(span)].lbl
        /\ BodyIns(span) = (JeIdx(span) + 1)..(JmpIdx(span) - 1)
        /\ ins[JmpIdx(span)].op = "jmp"
        /\ ins[JmpIdx(span)].tgt = ins[CmpIdx(span)].lbl
        /\ ins[EndIdx(span)].op = "zero"
        /\ BoundOnce(ins[EndIdx(span)].lbl)
        /\ ins[EndIdx(span)].lbl # ins[CmpIdx(span)].lbl

\* the byte the loop head tests
TestedCell == cpu.mem[cpu.regs["r8"]]

\* the loop head reads the cell, a zero leaves the loop for the end label and
\* anything else enters the body; the end of the body returns to the loop
\* head; nothing else leaves the loop
ConditionRuns(span) ==
    LET loop == CmpIdx(span)..JmpIdx(span)
    IN  /\ cpu.last = CmpIdx(span) =>
              cpu.pc = JeIdx(span) /\ cpu.zf = (TestedCell = 0)
        /\ cpu.last = JeIdx(span) =>
              IF TestedCell = 0
              THEN OffsetOf(cpu.pc) = result.offsets[EndIdx(span)]
              ELSE cpu.pc = JeIdx(span) + 1
        /\ cpu.last = JmpIdx(span) => cpu.pc = CmpIdx(span)
        /\ (cpu.last \in loop /\ cpu.pc \notin loop) =>
              cpu.last = JeIdx(span) /\ TestedCell = 0

\* a program that is one Condition never enters the body when the cell is
\* zero at entry, and with a body that decrements the cell it has run the
\* body once per unit of the cell when it ends
ConditionCounts ==
    (Len(result.ir) = 1 /\ result.ir[1].op = "Condition") =>
        LET span == result.ir[1].span
        IN  /\ cpu.v0 = 0 => cpu.iters[span] = 0
            /\ (result.ir[1].body = Stamp(<<Subtract(NatW(1))>>, span)
                  /\ cpu.status = "halted") =>
                  /\ cpu.iters[span] = Min({cpu.v0, MaxIters})
                  /\ cpu.mem[CellAddress] = 0

\* C11: the code emitted for Condition(body) is, in order, start label,
\* compare of the data-pointer byte with zero, jump-if-zero to the end label,
\* the translated body, jump to the start label, end label, each label bound
\* once; run, it executes the body zero times when the cell is zero at entry,
\* re-runs it until the loop head reads zero, and leaves the loop only at a
\* loop-head test that reads zero.
C11_ConditionIsAWhileLoop ==
    /\ (result.kind = "bytecode" /\ result.outcome = "ok") =>
          \A span \in CondSpans : ConditionLayout(span)
    /\ cpu.status # "idle" =>
          /\ \A span \in CondSpans : ConditionRuns(span)
          /\ ConditionCounts

\* the loop that decrements a cell holding 3 has ended after three runs of
\* its body
C11_Witness ==
    /\ cpu.status = "halted"
    /\ result.ir = Stamp(<<Condition(<<Subtract(NatW(1))>>)>>, 0)
    /\ cpu.v0 = 3
    /\ cpu.iters[1] = 3
    /\ cpu.mem[CellAddress] = 0

\* the loop entered with a zero cell has ended without running its body
C11_WitnessZeroTimes ==
    /\ cpu.status = "halted"
    /\ result.ir = Stamp(<<Condition(<<Add(NatW(1))>>)>>, 0)
    /\ cpu.v0 = 0
    /\ cpu.iters[1] = 0


(***************************************************************************)
(* C12                                                                     *)
(***************************************************************************)
\* auxiliary pointers: apart from the data pointer, just below it, on it, and
\* at the top of the address space
AuxSamples ==
    {StackAddress, WSub(CellAddress, NatW(1)), CellAddress,
     W(65535, 65535, 65535, 65535)}

\* the data pointer on a cell holding v, the auxiliary pointer r9 on a byte
\* holding u with a byte holding t above it
StackMachine(v, r9, u, t) ==
    Machine(CellAddress, r9,
            [a \in {CellAddress, r9, WAdd(r9, NatW(1))} |->
                IF a = CellAddress THEN v ELSE IF a = r9 THEN u ELSE t])

StackBytes == {0, 7, 255}

\* StackPush: the auxiliary pointer moves up by one, the new top holds the
\* data-pointer byte, nothing else changes
PushIsPreIncrement ==
    \A v \in 0..255, r9 \in AuxSamples, u \in StackBytes, t \in StackBytes :
       LET m0 == StackMachine(v, r9, u, t)
           m1 == ExecAll(m0, result.instrs)
           top == WAdd(r9, NatW(1))
       IN  /\ m1.regs["r9"] = top
           /\ m1.regs["r8"] = CellAddress
           /\ m1.mem[top] = m0.mem[CellAddress]
           /\ \A a \in DOMAIN m0.mem \ {top} : m1.mem[a] = m0.mem[a]

\* StackPop: the data-pointer cell holds the byte that was on top, the
\* auxiliary pointer moves down by one, nothing else changes
PopIsPostDecrement ==
    \A v \in 0..255, r9 \in AuxSamples, u \in StackBytes, t \in StackBytes :
       LET m0 == StackMachine(v, r9, u, t)
           m1 == ExecAll(m0, result.instrs)
       IN  /\ m1.mem[CellAddress] = m0.mem[r9]
           /\ m1.regs["r9"] = WSub(r9, NatW(1))
           /\ m1.regs["r8"] = CellAddress
           /\ \A a \in DOMAIN m0.mem \ {CellAddress} : m1.mem[a] = m0.mem[a]

\* the request has returned and its code has not been entered (the result
\* stays as it is while the code runs)
NotYetRun == cpu.status = "idle"

PushThenPop ==
    /\ result.kind = "bytecode"
    /\ result.ir = Stamp(<<StackPush, StackPop>>, 0)

PushThenPopRestores ==
    \A v \in 0..255, r9 \in AuxSamples, u \in StackBytes, t \in StackBytes :
       LET m0 == StackMachine(v, r9, u, t)
           m1 == ExecAll(m0, result.instrs)
       IN  /\ m1.regs = m0.regs
           /\ m1.mem[CellAddress] = v

\* C12: StackPush is a pre-increment push (auxiliary pointer + 1, then the
\* data-pointer byte stored at the new top) and StackPop a post-decrement pop
\* (top byte copied to the data-pointer cell, then auxiliary pointer - 1), so
\* for every cell value and auxiliary pointer StackPush immediately followed
\* by StackPop leaves the cell, the data pointer and the auxiliary pointer
\* unchanged.
C12_PushPopRoundTrip ==
    /\ (SingleNode("StackPush") /\ NotYetRun) =>
          /\ result.outcome = "ok"
          /\ Len(result.instrs) = 3
          /\ result.instrs[1].op = "lea"
          /\ result.instrs[3].op = "mov_m_al"
          /\ PushIsPreIncrement
    /\ (SingleNode("StackPop") /\ NotYetRun) =>
          /\ result.outcome = "ok"
          /\ Len(result.instrs) = 3
          /\ result.instrs[1].op = "mov_al_m"
          /\ result.instrs[3].op = "lea"
          /\ PopIsPostDecrement
    /\ PushThenPop =>
          /\ result.outcome = "ok"
          /\ NotYetRun => PushThenPopRestores
          /\ cpu.status = "halted" =>
                /\ cpu.mem[CellAddress] = cpu.v0
                /\ cpu.regs["r8"] = CellAddress
                /\ cpu.regs["r9"] = StackAddress

\* StackPush then StackPop has run on a cell holding 3 and on a stack whose
\* top byte held something else
C12_Witness ==
    /\ PushThenPop
    /\ cpu.status = "halted"
    /\ cpu.v0 = 3
    /\ cpu.last = 6
    /\ cpu.mem[WAdd(StackAddress, NatW(1))] = 3


(***************************************************************************)
(* C13                                                                     *)
(***************************************************************************)
ExtSpans ==
    {Nodes[i].span : i \in {j \in 1..Len(Nodes) : Nodes[j].op = "ExternalFunctionCall"}}

\* the first instruction of an external call's sequence, its call and its
\* last pop
SeqStart(span) == Min(EmittedFor(span))

CallIdx(span) == SeqStart(span) + 5

SeqEnd(span) == SeqStart(span) + 7

\* the save slots of the data pointer and of the auxiliary pointer
DataSlot == WSub(StackBase, NatW(8))

AuxSlot == WSub(StackBase, NatW(16))

\* push data pointer, push auxiliary pointer, first argument = address of the
\* saved data pointer, second argument = address of the saved auxiliary
\* pointer, call with the recorded label bound on it, pop auxiliary pointer,
\* pop data pointer
ExternalCallLayout(span) ==
    LET ins == result.instrs
        k == SeqStart(span)
        site == ins[k + 5].lbl
    IN  /\ EmittedFor(span) = k..(k + 7)
        /\ ins[k].op = "zero"
        /\ ins[k + 1].op = "push" /\ ins[k + 1].r1 = "r8"
        /\ ins[k + 2].op = "push" /\ ins[k + 2].r1 = "r9"
        /\ ins[k + 3].op = "lea" /\ ins[k + 3].r1 = ArgRegisters[1]
        /\ ins[k + 3].r2 = "rsp" /\ ins[k + 3].imm = NatW(8)
        /\ ins[k + 4].op = "lea" /\ ins[k + 4].r1 = ArgRegisters[2]
        /\ ins[k + 4].r2 = "rsp" /\ ins[k + 4].imm = WZero
        /\ ins[k + 5].op = "call"
        /\ BoundOnce(site)
        /\ ins[k + 5].tgt = site
        /\ \E i \in 1..Len(external_calls[NodeOf(span).name]) :
              external_calls[NodeOf(span).name][i] = [id |-> site, idx |-> k + 5]
        /\ ins[k + 6].op = "pop" /\ ins[k + 6].r1 = "r9"
        /\ ins[k + 7].op = "pop" /\ ins[k + 7].r1 = "r8"

\* the sequence starts and ends on the same native stack pointer; the callee
\* is handed the addresses of the two saved registers; after the sequence
\* each dedicated register holds what its own slot held when the callee
\* returned
ExternalCallRuns(span) ==
    /\ (cpu.status = "running" /\ cpu.pc = SeqStart(span)) =>
          cpu.regs["rsp"] = StackBase
    /\ (cpu.status = "in_callee" /\ cpu.pc = CallIdx(span)) =>
          /\ cpu.regs[ArgRegisters[1]] = DataSlot
          /\ cpu.regs[ArgRegisters[2]] = AuxSlot
          /\ cpu.stk[DataSlot] = cpu.regs["r8"]
          /\ cpu.stk[AuxSlot] = cpu.regs["r9"]
          /\ cpu.regs["r8"] \in CalleeData
          /\ cpu.regs["r9"] \in CalleeAux
    /\ (cpu.status \in {"running", "halted"} /\ cpu.last = SeqEnd(span)) =>
          /\ cpu.regs["rsp"] = StackBase
          /\ cpu.regs["r8"] = cpu.stk[DataSlot]
          /\ cpu.regs["r9"] = cpu.stk[AuxSlot]
          /\ cpu.regs["r8"] \in CalleeData
          /\ cpu.regs["r9"] \in CalleeAux

\* C13: for both modelled calling conventions the code emitted for
\* ExternalFunctionCall(name) is push data pointer, push auxiliary pointer,
\* first argument register = address of the saved data pointer, second =
\* address of the saved auxiliary pointer, call (the recorded call-site label
\* bound on the call itself), pop auxiliary pointer, pop data pointer; pushes
\* and pops balance, so after a callee that preserves the native stack
\* pointer it is what it was before the sequence, and each dedicated register
\* holds the possibly updated content of its own save slot.
C13_ExternalCallSequence ==
    /\ (result.kind = "bytecode" /\ result.outcome = "ok") =>
          \A span \in ExtSpans : ExternalCallLayout(span)
    /\ cpu.status # "idle" =>
          /\ \A span \in ExtSpans : ExternalCallRuns(span)
          /\ (ExtSpans # {} /\ CondSpans = {}) => cpu.status # "fault"

\* under the Microsoft convention a callee has moved both pointers and the
\* code after the call has ended with them
C13_Witness ==
    /\ result.ir = Stamp(<<ExternalFunctionCall("a")>>, 0)
    /\ calling_convention = "X86_64_MicrosoftX64"
    /\ cpu.status = "halted"
    /\ cpu.last = SeqEnd(1)
    /\ cpu.regs["r8"] = WAdd(CellAddress, NatW(1))
    /\ cpu.regs["r9"] = WAdd(StackAddress, NatW(1))
    /\ cpu.regs["rsp"] = StackBase

\* the same under the System V convention, the callee leaving both slots as
\* they were
C13_WitnessSystemV ==
    /\ result.ir = Stamp(<<ExternalFunctionCall("a")>>, 0)
    /\ calling_convention = "X86_64_SystemVAMD64"
    /\ cpu.status = "halted"
    /\ cpu.regs["r8"] = CellAddress
    /\ cpu.regs["r9"] = StackAddress

====
